---- MODULE Spec2Model ----
(***************************************************************************)
(* Model of src/hash_table.py: a separate-chaining hash table with         *)
(* doubling / halving of the bucket array.                                 *)
(*                                                                         *)
(* The table is a sequence of buckets; bucket index i of the program       *)
(* (0-based) is table[i + 1] here.  Every method is an operator on a       *)
(* record [table, count, exc] and returns the record after the call;       *)
(* exc is the exception that left the call ("none" when it returned).      *)
(***************************************************************************)
EXTENDS Integers, Sequences, FiniteSets, TLC

VARIABLES table, count, last, initial, pending

vars == <<table, count, last, initial, pending>>

(* ---- bounds ---------------------------------------------------------- *)
MaxKey == 1
MaxVal == 2
MaxBulk == 3

(* ---- program constants ----------------------------------------------- *)
INITIAL_SIZE == 4
RESIZE_MUL == 2

(* Keys are small Python ints; -2 and -1 have the same hash value. *)
Keys == (0 - 2)..MaxKey
Vals == 1..MaxVal

(* CPython hash of a small int: the int itself, except hash(-1) = -2. *)
Hash(key) == IF key = 0 - 1 THEN 0 - 2 ELSE key

Item(key, value) == [key |-> key, value |-> value]

NewTable(size) == [i \in 1..size |-> <<>>]

(* allocs counts the bucket arrays the call has allocated so far *)
State(t, c) == [table |-> t, count |-> c, exc |-> "none", allocs |-> 0]

(* self._table = [[] for _ in range(new_size)]; self._count_items = 0 *)
Fresh(st, new_size) ==
  [table |-> NewTable(new_size), count |-> 0, exc |-> "none", allocs |-> st.allocs + 1]

RECURSIVE WalkFrom(_, _)
WalkFrom(t, i) == IF i > Len(t) THEN <<>> ELSE t[i] \o WalkFrom(t, i + 1)

(* for items in table: for item in items *)
Walk(t) == WalkFrom(t, 1)

(* index = hash(key) % len(table); -1 stands for ZeroDivisionError *)
GetIndex(t, key) == IF Len(t) = 0 THEN 0 - 1 ELSE Hash(key) % Len(t)

(* Faulty variant: entries are matched by hash value instead of by key. *)
FindMut_HashEq(t, key) ==
  LET index == GetIndex(t, key) IN
  IF index < 0 THEN [exc |-> "ZeroDivisionError", index |-> 0, sub_index |-> 0]
  ELSE LET items == t[index + 1]
           hits == {i \in 1..Len(items) : Hash(items[i].key) = Hash(key)}
       IN IF hits = {} THEN [exc |-> "KeyError", index |-> index, sub_index |-> 0]
          ELSE [exc |-> "none", index |-> index,
                sub_index |-> (CHOOSE i \in hits : \A j \in hits : i <= j) - 1]

(* Faulty variant: only the head of the chain is compared. *)
FindMut_FirstOnly(t, key) ==
  LET index == GetIndex(t, key) IN
  IF index < 0 THEN [exc |-> "ZeroDivisionError", index |-> 0, sub_index |-> 0]
  ELSE LET items == t[index + 1]
       IN IF Len(items) > 0 /\ items[1].key = key
          THEN [exc |-> "none", index |-> index, sub_index |-> 0]
          ELSE [exc |-> "KeyError", index |-> index, sub_index |-> 0]

(* first entry of the addressed bucket whose key equals key, or KeyError *)
Find(t, key) ==
  LET index == GetIndex(t, key) IN
  IF index < 0 THEN [exc |-> "ZeroDivisionError", index |-> 0, sub_index |-> 0]
  ELSE LET items == t[index + 1]
           hits == {i \in 1..Len(items) : items[i].key = key}
       IN IF hits = {} THEN [exc |-> "KeyError", index |-> index, sub_index |-> 0]
          ELSE [exc |-> "none", index |-> index,
                sub_index |-> (CHOOSE i \in hits : \A j \in hits : i <= j) - 1]

(* Faulty variant: the last entry takes the place of the removed one. *)
RemoveAtMut_SwapLast(s, i) ==
  IF i = Len(s) THEN SubSeq(s, 1, Len(s) - 1)
  ELSE SubSeq([s EXCEPT ![i] = s[Len(s)]], 1, Len(s) - 1)

(* del items[sub_index] *)
RemoveAt(s, i) == SubSeq(s, 1, i - 1) \o SubSeq(s, i + 1, Len(s))

RECURSIVE Update(_, _, _, _), Resize(_), Rehash(_, _)

(* for items in old_table: for item in items: _update(key, value, False) *)
Rehash(st, items) ==
  IF items = <<>> \/ st.exc # "none" THEN st
  ELSE Rehash(Update(st, Head(items).key, Head(items).value, FALSE), Tail(items))

(* Faulty variant: the count is compared without the factor RESIZE_MUL. *)
ResizeMut_NoMul(st) ==
  LET expected_size == st.count
      size == Len(st.table)
  IN IF expected_size > size
     THEN Rehash(State(NewTable(size * RESIZE_MUL), 0), Walk(st.table))
     ELSE IF expected_size * RESIZE_MUL < size
     THEN Rehash(State(NewTable(size \div RESIZE_MUL), 0), Walk(st.table))
     ELSE st

(* Faulty variant: the count is not reset before the rehash. *)
ResizeMut_NoCountReset(st) ==
  LET expected_size == st.count * RESIZE_MUL
      size == Len(st.table)
  IN IF expected_size > size
     THEN Rehash(State(NewTable(size * RESIZE_MUL), st.count), Walk(st.table))
     ELSE IF expected_size * RESIZE_MUL < size
     THEN Rehash(State(NewTable(size \div RESIZE_MUL), st.count), Walk(st.table))
     ELSE st

(* Faulty variant: the rehash starts at the second bucket of the old table. *)
ResizeMut_SkipBucket(st) ==
  LET expected_size == st.count * RESIZE_MUL
      size == Len(st.table)
  IN IF expected_size > size
     THEN Rehash(State(NewTable(size * RESIZE_MUL), 0), WalkFrom(st.table, 2))
     ELSE IF expected_size * RESIZE_MUL < size
     THEN Rehash(State(NewTable(size \div RESIZE_MUL), 0), WalkFrom(st.table, 2))
     ELSE st

(* expected_size = count * RESIZE_MUL; grow if it exceeds the size, shrink
   if twice it is below the size; then rehash into the new table *)
(* Faulty variant: the table grows as soon as twice the count reaches the size. *)
ResizeMut_GrowGE(st) ==
  LET expected_size == st.count * RESIZE_MUL
      size == Len(st.table)
  IN IF expected_size >= size
     THEN Rehash(Fresh(st, size * RESIZE_MUL), Walk(st.table))
     ELSE IF expected_size * RESIZE_MUL < size
     THEN Rehash(Fresh(st, size \div RESIZE_MUL), Walk(st.table))
     ELSE st

(* Faulty variant: the table grows only when twice the count exceeds twice the size. *)
ResizeMut_GrowLate(st) ==
  LET expected_size == st.count * RESIZE_MUL
      size == Len(st.table)
  IN IF expected_size > size * RESIZE_MUL
     THEN Rehash(Fresh(st, size * RESIZE_MUL), Walk(st.table))
     ELSE IF expected_size * RESIZE_MUL < size
     THEN Rehash(Fresh(st, size \div RESIZE_MUL), Walk(st.table))
     ELSE st

(* Faulty variant: the shrink test leaves out the second factor. *)
ResizeMut_ShrinkAlways(st) ==
  LET expected_size == st.count * RESIZE_MUL
      size == Len(st.table)
  IN IF expected_size > size
     THEN Rehash(Fresh(st, size * RESIZE_MUL), Walk(st.table))
     ELSE IF expected_size < size
     THEN Rehash(Fresh(st, size \div RESIZE_MUL), Walk(st.table))
     ELSE st

RECURSIVE Reverse(_)
Reverse(s) == IF s = <<>> THEN <<>> ELSE Append(Reverse(Tail(s)), Head(s))

(* Faulty variant: the old table is rehashed from its last entry to its first. *)
ResizeMut_ReverseWalk(st) ==
  LET expected_size == st.count * RESIZE_MUL
      size == Len(st.table)
  IN IF expected_size > size
     THEN Rehash(Fresh(st, size * RESIZE_MUL), Reverse(Walk(st.table)))
     ELSE IF expected_size * RESIZE_MUL < size
     THEN Rehash(Fresh(st, size \div RESIZE_MUL), Reverse(Walk(st.table)))
     ELSE st

(* Faulty variant: a grow keeps the old buckets and adds empty ones. *)
ResizeMut_Extend(st) ==
  LET expected_size == st.count * RESIZE_MUL
      size == Len(st.table)
  IN IF expected_size > size
     THEN [st EXCEPT !.table = @ \o NewTable(size), !.allocs = @ + 1]
     ELSE IF expected_size * RESIZE_MUL < size
     THEN Rehash(Fresh(st, size \div RESIZE_MUL), Walk(st.table))
     ELSE st

Resize(st) ==
  LET expected_size == st.count * RESIZE_MUL
      size == Len(st.table)
  IN IF expected_size > size
     THEN Rehash(Fresh(st, size * RESIZE_MUL), Walk(st.table))
     ELSE IF expected_size * RESIZE_MUL < size
     THEN Rehash(Fresh(st, size \div RESIZE_MUL), Walk(st.table))
     ELSE st

(* Faulty variant: an insert never runs the resize check. *)
UpdateMut_NoResize(st, key, value, resize) ==
  LET f == Find(st.table, key) IN
  IF f.exc = "ZeroDivisionError" THEN [st EXCEPT !.exc = f.exc]
  ELSE IF f.exc = "none"
  THEN [st EXCEPT !.table[f.index + 1][f.sub_index + 1].value = value]
  ELSE LET index == GetIndex(st.table, key)
       IN [st EXCEPT !.table[index + 1] = Append(@, Item(key, value)),
                     !.count = @ + 1]

(* Faulty variant: the value of a key that is present is kept. *)
UpdateMut_KeepOld(st, key, value, resize) ==
  LET f == Find(st.table, key) IN
  IF f.exc = "ZeroDivisionError" THEN [st EXCEPT !.exc = f.exc]
  ELSE IF f.exc = "none"
  THEN st
  ELSE LET index == GetIndex(st.table, key)
           appended == [st EXCEPT !.table[index + 1] = Append(@, Item(key, value)),
                                  !.count = @ + 1]
       IN IF resize THEN Resize(appended) ELSE appended

(* Faulty variant: an update removes the entry and appends a new one. *)
UpdateMut_ReAppend(st, key, value, resize) ==
  LET f == Find(st.table, key) IN
  IF f.exc = "ZeroDivisionError" THEN [st EXCEPT !.exc = f.exc]
  ELSE IF f.exc = "none"
  THEN [st EXCEPT !.table[f.index + 1] =
                     Append(RemoveAt(@, f.sub_index + 1), Item(key, value))]
  ELSE LET index == GetIndex(st.table, key)
           appended == [st EXCEPT !.table[index + 1] = Append(@, Item(key, value)),
                                  !.count = @ + 1]
       IN IF resize THEN Resize(appended) ELSE appended

(* insert or set value *)
Update(st, key, value, resize) ==
  LET f == Find(st.table, key) IN
  IF f.exc = "ZeroDivisionError" THEN [st EXCEPT !.exc = f.exc]
  ELSE IF f.exc = "none"
  THEN [st EXCEPT !.table[f.index + 1][f.sub_index + 1].value = value]
  ELSE LET index == GetIndex(st.table, key)
           appended == [st EXCEPT !.table[index + 1] = Append(@, Item(key, value)),
                                  !.count = @ + 1]
       IN IF resize THEN Resize(appended) ELSE appended

(* get value: the record carries the returned value *)
Get(st, key) ==
  LET f == Find(st.table, key) IN
  IF f.exc # "none" THEN [exc |-> f.exc, value |-> 0]
  ELSE [exc |-> "none", value |-> st.table[f.index + 1][f.sub_index + 1].value]

(* Faulty variant: a delete never runs the resize check. *)
DeleteMut_NoResize(st, key) ==
  LET f == Find(st.table, key) IN
  IF f.exc # "none" THEN [st EXCEPT !.exc = f.exc]
  ELSE [st EXCEPT !.table[f.index + 1] = RemoveAt(@, f.sub_index + 1),
                  !.count = @ - 1]

(* Faulty variant: the head of the chain is removed, not the match. *)
DeleteMut_RemoveFirst(st, key) ==
  LET f == Find(st.table, key) IN
  IF f.exc # "none" THEN [st EXCEPT !.exc = f.exc]
  ELSE Resize([st EXCEPT !.table[f.index + 1] = RemoveAt(@, 1),
                         !.count = @ - 1])

(* Faulty variant: the count is decremented before the key is looked up. *)
DeleteMut_CountFirst(st, key) ==
  LET f == Find(st.table, key) IN
  IF f.exc # "none" THEN [st EXCEPT !.exc = f.exc, !.count = @ - 1]
  ELSE Resize([st EXCEPT !.table[f.index + 1] = RemoveAt(@, f.sub_index + 1),
                         !.count = @ - 1])

(* delete value *)
Delete(st, key) ==
  LET f == Find(st.table, key) IN
  IF f.exc # "none" THEN [st EXCEPT !.exc = f.exc]
  ELSE Resize([st EXCEPT !.table[f.index + 1] = RemoveAt(@, f.sub_index + 1),
                         !.count = @ - 1])

(* iterators, as the sequences they yield *)
keys(t) == LET w == Walk(t) IN [i \in 1..Len(w) |-> w[i].key]
values(t) == LET w == Walk(t) IN [i \in 1..Len(w) |-> w[i].value]
(* Faulty variant: the key is yielded in place of the value. *)
itemsMut_KeyTwice(t) == LET w == Walk(t) IN [i \in 1..Len(w) |-> <<w[i].key, w[i].key>>]
items(t) == LET w == Walk(t) IN [i \in 1..Len(w) |-> <<w[i].key, w[i].value>>]

(* __len__ *)
len == count

Outcome(exc) == IF exc = "none" THEN "ok" ELSE exc

(* the last public call: its arguments, its outcome, the capacity and
   count the container had when it was made, and the number of bucket
   arrays it allocated *)
Call(op, key, value, exc, ret, allocs) ==
  [op |-> op, key |-> key, value |-> value, result |-> Outcome(exc), ret |-> ret,
   old_size |-> Len(table), old_count |-> count, allocs |-> allocs]

NoCall == [op |-> "init", key |-> 0, value |-> 0, result |-> "ok", ret |-> 0,
           old_size |-> INITIAL_SIZE, old_count |-> 0, allocs |-> 1]

(* ---- the container after HashTable() --------------------------------- *)
Init ==
  /\ table = NewTable(INITIAL_SIZE)
  /\ count = 0
  /\ last = NoCall
  /\ initial = <<>>
  /\ pending = <<>>

(* __setitem__ *)
SetItem(key, value) ==
  LET r == Update(State(table, count), key, value, TRUE) IN
  /\ pending = <<>>
  /\ table' = r.table
  /\ count' = r.count
  /\ last' = Call("set", key, value, r.exc, 0, r.allocs)
  /\ UNCHANGED <<initial, pending>>

(* __getitem__ *)
GetItem(key) ==
  LET r == Get(State(table, count), key) IN
  /\ pending = <<>>
  /\ last' = Call("get", key, 0, r.exc, r.value, 0)
  /\ UNCHANGED <<table, count, initial, pending>>

(* __delitem__ *)
DelItem(key) ==
  LET r == Delete(State(table, count), key) IN
  /\ pending = <<>>
  /\ table' = r.table
  /\ count' = r.count
  /\ last' = Call("delete", key, 0, r.exc, 0, r.allocs)
  /\ UNCHANGED <<initial, pending>>

Next ==
  \/ \E key \in Keys, value \in Vals : SetItem(key, value)
  \/ \E key \in Keys : GetItem(key)
  \/ \E key \in Keys : DelItem(key)

Spec == Init /\ [][Next]_vars

(* ---- the same container, used with keys whose hash values agree
        modulo 8, so that chains of three and more entries occur -------- *)
CollideKeys == {0 - 2, 0 - 1, 6, 14, 22}

NextCollide ==
  \/ \E key \in CollideKeys : SetItem(key, 1)
  \/ \E key \in CollideKeys : DelItem(key)

SpecCollide == Init /\ [][NextCollide]_vars

(* ---- HashTable(initial): the constructor, one loop iteration a step --- *)

(* a dict, as the sequence of its (key, value) pairs in iteration order *)
Dicts ==
  {d \in UNION {[1..n -> Keys \X Vals] : n \in 0..MaxBulk} :
     \A i, j \in 1..Len(d) : i # j => d[i][1] # d[j][1]}

(* after the table and the count are set, before the loop over initial *)
BulkInit ==
  /\ table = NewTable(INITIAL_SIZE)
  /\ count = 0
  /\ last = NoCall
  /\ initial \in Dicts
  /\ pending = initial

(* for key, value in initial.items(): self._update(key, value) *)
InitStep ==
  /\ pending # <<>>
  /\ LET r == Update(State(table, count), Head(pending)[1], Head(pending)[2], TRUE) IN
       /\ table' = r.table
       /\ count' = r.count
  /\ pending' = Tail(pending)
  /\ UNCHANGED <<last, initial>>

BulkNext == InitStep

SpecBulk == BulkInit /\ [][BulkNext]_vars

RECURSIVE ConstructFrom(_, _)
ConstructFrom(st, d) ==
  IF d = <<>> THEN st
  ELSE ConstructFrom(Update(st, Head(d)[1], Head(d)[2], TRUE), Tail(d))

(* the whole constructor, applied to the dict d *)
Construct(d) == ConstructFrom(State(NewTable(INITIAL_SIZE), 0), d)

(* ---- properties ------------------------------------------------------- *)

Now == State(table, count)
After == State(table', count')

Present(t, key) == Find(t, key).exc = "none"

(* the (key, value) pairs stored anywhere in the table *)
Stored(t) == LET w == Walk(t) IN {<<w[i].key, w[i].value>> : i \in 1..Len(w)}

(* the key-to-value mapping that lookups observe *)
Mapping(t) == {<<key, Get(State(t, 0), key).value>> : key \in {k \in Keys : Present(t, k)}}

Resized == Len(table) # last.old_size

(* C1: in every reachable state the capacity is at least 1, and no call
   has failed on a division by a zero capacity. *)
CapacityAtLeastOne == Len(table) >= 1 /\ last.result # "ZeroDivisionError"

(* a set made on a container emptied down to a single bucket succeeded *)
SetAfterEmptying ==
  /\ last.op = "set" /\ last.result = "ok"
  /\ last.old_size = 1 /\ last.old_count = 0
  /\ Get(Now, last.key) = [exc |-> "none", value |-> last.value]

(* C2: no two entries of the table, in the same chain or in different
   chains, have equal keys. *)
KeysUnique ==
  LET ks == keys(table) IN \A i, j \in 1..Len(ks) : i # j => ks[i] # ks[j]

(* a resize has just left a chain of two entries beside another chain *)
CollidingChainsAfterResize ==
  /\ Resized
  /\ \E b, c \in 1..Len(table) : b # c /\ Len(table[b]) >= 2 /\ Len(table[c]) >= 1

(* C3: a set always succeeds and get of its key then returns its value;
   a call on another key leaves what get returns for a present key
   unchanged, whether or not the call resizes the table. *)
RoundTrip ==
  [][/\ last'.op = "set" =>
          /\ last'.result = "ok"
          /\ Get(After, last'.key) = [exc |-> "none", value |-> last'.value]
     /\ \A key \in Keys :
          (key # last'.key /\ Present(table, key)) => Get(After, key) = Get(Now, key)
    ]_vars

(* a set that grew the table, with other keys stored *)
SetWithGrow ==
  /\ last.op = "set" /\ last.result = "ok"
  /\ Len(table) > last.old_size /\ count >= 3
  /\ Get(Now, last.key).value = last.value

(* C4: delete of a present key succeeds; afterwards get of that key fails
   with KeyError, the count is one less, one entry less is stored, and every
   other key maps to what it mapped to before, also when the table shrinks. *)
Deletion ==
  [][(last'.op = "delete" /\ Present(table, last'.key)) =>
        /\ last'.result = "ok"
        /\ Get(After, last'.key).exc = "KeyError"
        /\ count' = count - 1
        /\ Len(Walk(table')) = Len(Walk(table)) - 1
        /\ \A key \in Keys : key # last'.key => Get(After, key) = Get(Now, key)
    ]_vars

(* a delete that shrank the table and left other keys stored *)
DeleteWithShrink ==
  /\ last.op = "delete" /\ last.result = "ok"
  /\ Len(table) < last.old_size /\ count >= 1
  /\ Get(Now, last.key).exc = "KeyError"

(* C5: len() equals the number of entries stored over all chains; a set of
   an absent key adds one to it, a delete of a present key subtracts one,
   and every other call leaves it unchanged. *)
CountConsistent ==
  /\ [](len = Len(Walk(table)))
  /\ [][count' = count +
          (IF last'.op = "set" /\ ~Present(table, last'.key) THEN 1
           ELSE IF last'.op = "delete" /\ Present(table, last'.key) THEN 0 - 1
           ELSE 0)]_vars

(* a resize has rebuilt the count to one less than before the delete *)
CountAfterResize ==
  /\ last.op = "delete" /\ last.result = "ok" /\ Resized
  /\ count = last.old_count - 1 /\ count >= 1
  /\ len = Len(Walk(table))

(* C6: get and delete of an absent key fail with KeyError and leave the
   table, the count and the capacity as they were; a get of a present key
   returns its value and changes nothing. *)
KeyNotFoundNoChange ==
  [][/\ (last'.op \in {"get", "delete"} /\ ~Present(table, last'.key)) =>
          /\ last'.result = "KeyError"
          /\ table' = table /\ count' = count
     /\ last'.op = "get" =>
          /\ table' = table /\ count' = count
          /\ Present(table, last'.key) =>
               /\ last'.result = "ok"
               /\ last'.ret = Get(Now, last'.key).value
    ]_vars

(* a failed delete on an empty table that a resize check would shrink *)
FailedDeleteOnEmpty ==
  /\ last.op = "delete" /\ last.result = "KeyError"
  /\ count = 0 /\ Len(table) = INITIAL_SIZE
  /\ count * RESIZE_MUL * RESIZE_MUL < Len(table)

(* C7: a call that changes the capacity stores afterwards exactly the pairs
   stored before it, plus the pair set or minus the pair deleted, each once,
   with the count to match, and every stored key is found. *)
ResizeTransparent ==
  [][Len(table') # Len(table) =>
        /\ last'.op = "set" =>
             /\ Stored(table') = Stored(table) \cup {<<last'.key, last'.value>>}
             /\ Len(Walk(table')) = Len(Walk(table)) + 1
             /\ count' = count + 1
        /\ last'.op = "delete" =>
             /\ Stored(table') =
                  Stored(table) \ {<<last'.key, Get(Now, last'.key).value>>}
             /\ Len(Walk(table')) = Len(Walk(table)) - 1
             /\ count' = count - 1
        /\ Mapping(table') = Stored(table')
    ]_vars

(* the third key has doubled the initial table, rehashing a chain of two *)
GrowWithRehash ==
  /\ last.op = "set" /\ last.old_size = INITIAL_SIZE
  /\ Len(table) = INITIAL_SIZE * RESIZE_MUL /\ count = 3
  /\ \E b \in 1..Len(table) : Len(table[b]) = 2

(* number of entries in the buckets before bucket b *)
RECURSIVE Offset(_, _)
Offset(t, b) == IF b <= 1 THEN 0 ELSE Offset(t, b - 1) + Len(t[b - 1])

(* C8: keys(), values() and items() each yield len() elements, the entry at
   position j of bucket b at position Offset(b) + j; no key is yielded
   twice, keys found earlier by bucket and chain position come earlier, and
   the pairs yielded are the key-to-value mapping of the container. *)
IterationComplete ==
  LET ks == keys(table)
      vs == values(table)
      its == items(table)
  IN /\ Len(ks) = len /\ Len(vs) = len /\ Len(its) = len
     /\ \A b \in 1..Len(table) : \A j \in 1..Len(table[b]) :
          /\ ks[Offset(table, b) + j] = table[b][j].key
          /\ vs[Offset(table, b) + j] = table[b][j].value
          /\ its[Offset(table, b) + j] = <<table[b][j].key, table[b][j].value>>
     /\ \A i, j \in 1..Len(ks) : i # j => ks[i] # ks[j]
     /\ \A i, j \in 1..Len(ks) : i < j =>
          LET fi == Find(table, ks[i])
              fj == Find(table, ks[j])
          IN /\ fi.exc = "none" /\ fj.exc = "none"
             /\ \/ fi.index < fj.index
                \/ fi.index = fj.index /\ fi.sub_index < fj.sub_index
     /\ {its[i] : i \in 1..Len(its)} = Mapping(table)

(* four entries in eight buckets, two of them in one chain *)
IterationOverChains ==
  /\ count = 4 /\ Len(table) = 8
  /\ \E b \in 1..Len(table) : Len(table[b]) >= 2

(* C9: a set of a present key leaves the count, the capacity, the length of
   every chain and the key at every position unchanged, and changes no value
   but that of its key, which becomes the value set. *)
ValueUpdateNonStructural ==
  [][(last'.op = "set" /\ Present(table, last'.key)) =>
        /\ count' = count
        /\ Len(table') = Len(table)
        /\ \A b \in 1..Len(table) :
             /\ Len(table'[b]) = Len(table[b])
             /\ \A j \in 1..Len(table[b]) :
                  /\ table'[b][j].key = table[b][j].key
                  /\ table'[b][j].value =
                       IF table[b][j].key = last'.key THEN last'.value
                       ELSE table[b][j].value
        /\ Get(After, last'.key) = [exc |-> "none", value |-> last'.value]
    ]_vars

(* the head of a chain of two has been set again *)
UpdateOfChainHead ==
  /\ last.op = "set" /\ last.result = "ok" /\ count = last.old_count
  /\ \E b \in 1..Len(table) :
       /\ Len(table[b]) >= 2
       /\ table[b][1] = Item(last.key, last.value)

Perms(n) == {p \in [1..n -> 1..n] : \A i, j \in 1..n : i # j => p[i] # p[j]}

(* C10: when the constructor has inserted the whole dict, constructing from
   the same dict in any other order gives the same capacity, the same
   count, the same stored pairs and the same key-to-value mapping. *)
BulkOrderIndependent ==
  pending = <<>> =>
    \A p \in Perms(Len(initial)) :
      LET r == Construct([i \in 1..Len(initial) |-> initial[p[i]]])
      IN /\ r.exc = "none"
         /\ Len(r.table) = Len(table)
         /\ r.count = count
         /\ Stored(r.table) = Stored(table)
         /\ Mapping(r.table) = Mapping(table)
         /\ Mapping(table) = {initial[i] : i \in 1..Len(initial)}

(* a dict of three keys, two of them colliding, has been inserted *)
BulkOfThreeBuilt ==
  /\ pending = <<>> /\ Len(initial) >= 3
  /\ Len(table) = 8
  /\ \E b \in 1..Len(table) : Len(table[b]) >= 2

(* C11: every entry is stored in the bucket whose index is the hash of its
   key modulo the current capacity, and find locates it there. *)
BucketPlacement ==
  \A b \in 1..Len(table) : \A j \in 1..Len(table[b]) :
    /\ Hash(table[b][j].key) % Len(table) = b - 1
    /\ Find(table, table[b][j].key) =
         [exc |-> "none", index |-> b - 1, sub_index |-> j - 1]

(* a shrink has moved an entry to a bucket with another index *)
EntryMovedByShrink ==
  /\ last.op = "delete" /\ Len(table) < last.old_size
  /\ \E b \in 1..Len(table) : \E j \in 1..Len(table[b]) :
       Hash(table[b][j].key) % last.old_size # b - 1

(* C12: the table starts with INITIAL_SIZE buckets; a set of an absent key
   and a delete of a present key, with N the count after it and C the
   capacity before it, leave capacity 2 * C if 2 * N > C, else C div 2 if
   4 * N < C, else C; every other call leaves the capacity unchanged. *)
ResizePolicy ==
  /\ (last.op = "init" => Len(table) = INITIAL_SIZE)
  /\ [][LET C == Len(table)
            structural == \/ last'.op = "set" /\ ~Present(table, last'.key)
                          \/ last'.op = "delete" /\ Present(table, last'.key)
            N == count'
        IN Len(table') =
             IF ~structural THEN C
             ELSE IF 2 * N > C THEN 2 * C
             ELSE IF 4 * N < C THEN C \div 2
             ELSE C
       ]_vars

(* a delete has halved a table of eight buckets that held two entries *)
HalvedOnce ==
  /\ last.op = "delete" /\ last.result = "ok"
  /\ last.old_size = 8 /\ last.old_count = 2 /\ Len(table) = 4

(* C13 as stated: the capacity is never below INITIAL_SIZE. *)
CapacityFloorAtInitial == Len(table) >= INITIAL_SIZE

(* C13, amended: the capacity is never below 1, and it is below
   INITIAL_SIZE only while twice the count is at most the capacity, that is
   with at most one entry in two buckets and with none in one. *)
CapacityFloorAtOne ==
  /\ Len(table) >= 1
  /\ Len(table) < INITIAL_SIZE => Len(table) \in {1, 2} /\ 2 * count <= Len(table)

(* a delete has shrunk the initial table to two buckets *)
ShrunkBelowInitial ==
  /\ last.op = "delete" /\ last.result = "ok"
  /\ last.old_size = INITIAL_SIZE /\ Len(table) < INITIAL_SIZE

(* the entries of items whose key belongs in bucket index of size buckets *)
RECURSIVE InBucket(_, _, _)
InBucket(its, index, size) ==
  IF its = <<>> THEN <<>>
  ELSE IF Hash(Head(its).key) % size = index
       THEN <<Head(its)>> \o InBucket(Tail(its), index, size)
       ELSE InBucket(Tail(its), index, size)

(* the table as the resize check of the step finds it, in walk order *)
WalkBeforeResize ==
  IF last'.op = "set" THEN Walk(Update(Now, last'.key, last'.value, FALSE).table)
  ELSE LET f == Find(table, last'.key)
       IN Walk([table EXCEPT ![f.index + 1] = RemoveAt(@, f.sub_index + 1)])

(* C14: a call allocates one bucket array if it changes the capacity and
   none otherwise, and after a resize every chain holds, once each and in
   walk order of the old table, exactly the old entries that belong in it. *)
NoNestedReallocation ==
  [][/\ last'.allocs = (IF Len(table') # Len(table) THEN 1 ELSE 0)
     /\ last'.result # "ok" => last'.allocs = 0
     /\ Len(table') # Len(table) =>
          \A b \in 1..Len(table') :
            table'[b] = InBucket(WalkBeforeResize, b - 1, Len(table'))
    ]_vars

(* a resize has rehashed a chain of three entries with one allocation *)
RehashedChainOfThree ==
  /\ Resized /\ last.allocs = 1
  /\ \E b \in 1..Len(table) : Len(table[b]) >= 3

(* the entries of a chain whose key is not key, in chain order *)
RECURSIVE Without(_, _)
Without(chain, key) ==
  IF chain = <<>> THEN <<>>
  ELSE IF Head(chain).key = key THEN Without(Tail(chain), key)
       ELSE <<Head(chain)>> \o Without(Tail(chain), key)

(* C15: a delete of a present key that does not resize removes that entry
   from its chain and changes nothing else; after any delete, two remaining
   entries of one chain that are again in one chain are in the same order;
   a newly inserted key is the last entry of its chain. *)
ChainOrder ==
  [][/\ (last'.op = "delete" /\ Present(table, last'.key)) =>
          /\ Len(table') = Len(table) =>
               \A b \in 1..Len(table) : table'[b] = Without(table[b], last'.key)
          /\ \A b \in 1..Len(table) : \A i, j \in 1..Len(table[b]) :
               (i < j /\ table[b][i].key # last'.key /\ table[b][j].key # last'.key) =>
                 LET fi == Find(table', table[b][i].key)
                     fj == Find(table', table[b][j].key)
                 IN /\ fi.exc = "none" /\ fj.exc = "none"
                    /\ fi.index = fj.index => fi.sub_index < fj.sub_index
     /\ (last'.op = "set" /\ ~Present(table, last'.key)) =>
          LET f == Find(table', last'.key)
          IN /\ f.exc = "none"
             /\ f.sub_index = Len(table'[f.index + 1]) - 1
    ]_vars

(* a shrink has merged two chains into one of three entries *)
ShrinkMergedChains ==
  /\ last.op = "delete" /\ last.result = "ok" /\ Len(table) < last.old_size
  /\ \E b \in 1..Len(table) :
       /\ Len(table[b]) >= 3
       /\ \E i, j \in 1..Len(table[b]) :
            Hash(table[b][i].key) % last.old_size # Hash(table[b][j].key) % last.old_size

(* C16: in every reachable state twice the count is at most the capacity. *)
LoadFactorBound == RESIZE_MUL * count <= Len(table)

(* an insert that overfilled the table has doubled it once *)
DoublingSuffices ==
  /\ last.op = "set" /\ last.result = "ok"
  /\ Len(table) = RESIZE_MUL * last.old_size
  /\ RESIZE_MUL * count > last.old_size
  /\ RESIZE_MUL * count <= Len(table)

(* C17: in every reachable state the capacity is a power of two and at
   most the larger of INITIAL_SIZE and four times the count. *)
OverAllocationBound ==
  /\ \E e \in 0..Len(table) : Len(table) = 2 ^ e
  /\ \/ Len(table) <= INITIAL_SIZE
     \/ Len(table) <= RESIZE_MUL * RESIZE_MUL * count

(* a delete has halved the table to exactly four times its count *)
HalvingSuffices ==
  /\ last.op = "delete" /\ last.result = "ok"
  /\ RESIZE_MUL * Len(table) = last.old_size
  /\ count >= 1 /\ Len(table) = RESIZE_MUL * RESIZE_MUL * count

(* C18: a set never decreases the capacity and a delete never increases
   it. *)
ResizeDirection ==
  [][/\ last'.op = "set" => Len(table') >= Len(table)
     /\ last'.op = "delete" => Len(table') <= Len(table)
    ]_vars

(* an insert into the empty initial table, where four times the new count
   just reaches the capacity, has left the capacity as it was *)
InsertAtShrinkEdge ==
  /\ last.op = "set" /\ last.result = "ok" /\ last.old_count = 0
  /\ count = 1 /\ Len(table) = last.old_size
  /\ RESIZE_MUL * RESIZE_MUL * count = Len(table)

====
